---------------------------- MODULE Spec2Model ----------------------------
(***************************************************************************)
(* signalbid: the ingestion driver (ingest/run.py), the multi-source       *)
(* crawler (ingest/fetch.py) and the rules-based scorer (score/engine.py). *)
(*                                                                         *)
(* Representation of text.                                                 *)
(*  - Identifiers, URLs, titles and keys are TLA+ strings, joined with \o. *)
(*  - A digit string is the pair [val, width] (its value and its number of *)
(*    digits, leading zeros included); DigitStr renders it.                *)
(*  - A URL is [dir, leaf]: the text up to and including the last "/" and  *)
(*    the last path segment; UrlStr renders it.                            *)
(*  - A free text (a description) is [len, head, tail]: its length and the *)
(*    money mentions lying inside its first DescLimit characters (head)    *)
(*    and after them (tail), in reading order.                             *)
(*  - The HTML library is used at its interface: select(doc, selector) is  *)
(*    the document-order subsequence of the elements the selector matches. *)
(***************************************************************************)
EXTENDS Integers, Sequences, FiniteSets, TLC

VARIABLES
    \* ingestion driver (run.py main)
    config,         \* the loaded sources configuration: a sequence of sources
    history,        \* the history log: sequence of scored records
    pc,             \* "idle" | "sources" : position of main
    src_i,          \* index of the next source of the for loop
    existing_ids,   \* ids loaded at run start
    new_records,    \* records scored in this run
    failures,       \* source failures of this run
    clock,          \* the wall clock read by the run
    runs,           \* number of completed runs
    prev_items,     \* per source, what fetch_source gave in the previous run
    cur_items,      \* per source, what fetch_source gave in this run
    hist_at_start,  \* the history as it was when this run started
    dup_run,        \* some finished run crawled two candidates with one id
    \* crawler unit (fetch.py fetch_source on one source and one web)
    cr_source, cr_web, cr_out, cr_pc,
    \* detail unit (fetch.py _fetch_listing_detail on one page)
    dt_sel, dt_resp, dt_out, dt_pc,
    \* scorer unit (engine.py process on one item)
    sc_item, sc_now, sc_pc,
    \* fetch unit (fetch.py: one session.get of the retrying session, then its
    \* caller): which page, the Retry counter, the attempts made so far, the
    \* answer of session.get, the caller's result, the position
    ft_kind, ft_total, ft_log, ft_resp, ft_out, ft_pc

drv_vars == <<config, history, pc, src_i, existing_ids, new_records, failures,
              clock, runs, prev_items, cur_items, hist_at_start, dup_run>>
cr_vars == <<cr_source, cr_web, cr_out, cr_pc>>
dt_vars == <<dt_sel, dt_resp, dt_out, dt_pc>>
sc_vars == <<sc_item, sc_now, sc_pc>>
ft_vars == <<ft_kind, ft_total, ft_log, ft_resp, ft_out, ft_pc>>
vars == <<drv_vars, cr_vars, dt_vars, sc_vars, ft_vars>>

\* Python's None
None == [none |-> TRUE]

-----------------------------------------------------------------------------
(* Digit strings and calendar dates                                          *)

Digit == <<"0", "1", "2", "3", "4", "5", "6", "7", "8", "9">>

Num(v, w) == [val |-> v, width |-> w]

RECURSIVE DigitStr(_, _)
DigitStr(v, w) ==
    IF w = 0 THEN "" ELSE DigitStr(v \div 10, w - 1) \o Digit[(v % 10) + 1]

NumStr(n) == DigitStr(n.val, n.width)

\* str.zfill(2)
zfill2(n) == [n EXCEPT !.width = IF n.width < 2 THEN 2 ELSE n.width]

IsLeap(y) == (y % 4 = 0) /\ ((y % 100 # 0) \/ (y % 400 = 0))

DaysInMonth(y, m) ==
    CASE m \in {1, 3, 5, 7, 8, 10, 12} -> 31
      [] m \in {4, 6, 9, 11} -> 30
      [] OTHER -> IF IsLeap(y) THEN 29 ELSE 28

RECURSIVE DaysBeforeMonth(_, _)
DaysBeforeMonth(y, m) ==
    IF m <= 1 THEN 0 ELSE DaysBeforeMonth(y, m - 1) + DaysInMonth(y, m - 1)

DaysBeforeYear(y) ==
    (y - 1) * 365 + ((y - 1) \div 4) - ((y - 1) \div 100) + ((y - 1) \div 400)

\* date.toordinal()
Ordinal(y, m, d) == DaysBeforeYear(y) + DaysBeforeMonth(y, m) + d


-----------------------------------------------------------------------------
(* score/engine.py : OieScorer                                               *)

\* A deadline text as the crawler's patterns capture it (fetch.py 187-189):
\*   long: word, blank, 1-2 digits, comma, blank, 4 digits
\*   iso : 4 digits - 2 digits - 2 digits
\*   us  : 1-2 digits / 1-2 digits / 4 digits
\* and any other text [fmt |-> "other", text |-> s].
LongDate(w, d, y) == [fmt |-> "long", word |-> w, d |-> d, y |-> y]
IsoDate(y, m, d) == [fmt |-> "iso", y |-> y, m |-> m, d |-> d]
UsDate(m, d, y) == [fmt |-> "us", m |-> m, d |-> d, y |-> y]
OtherText(s) == [fmt |-> "other", text |-> s]

\* str(x) of a deadline value (run.py 24)
DeadlineStr(dl) ==
    IF dl = None THEN "None"
    ELSE CASE dl.fmt = "iso" ->
                NumStr(dl.y) \o "-" \o NumStr(dl.m) \o "-" \o NumStr(dl.d)
           [] dl.fmt = "us" ->
                NumStr(dl.m) \o "/" \o NumStr(dl.d) \o "/" \o NumStr(dl.y)
           [] dl.fmt = "long" ->
                dl.word \o " " \o NumStr(dl.d) \o ", " \o NumStr(dl.y)
           [] OTHER -> dl.text

month_names == <<"january", "february", "march", "april", "may", "june", "july",
                 "august", "september", "october", "november", "december">>

\* the words the model writes a long date with, and str.lower() of each
Words == {"January", "February", "March", "MARCH", "march", "December", "Smarch"}
Lower(w) ==
    CASE w = "January" -> "january"
      [] w = "February" -> "february"
      [] w \in {"March", "MARCH", "march"} -> "march"
      [] w = "December" -> "december"
      [] w = "Smarch" -> "smarch"
      [] OTHER -> w

\* month_map.get(name): the two-digit month, or None
month_map_get(name) ==
    IF \E k \in 1..Len(month_names) : month_names[k] = name
    THEN Num(CHOOSE k \in 1..Len(month_names) : month_names[k] = name, 2)
    ELSE None

parse_deadline(deadline_str) ==
    IF deadline_str = None \/ deadline_str = OtherText("") THEN None
    ELSE IF deadline_str.fmt = "iso" THEN deadline_str
    ELSE IF deadline_str.fmt = "us"
         THEN IsoDate(deadline_str.y, zfill2(deadline_str.m), zfill2(deadline_str.d))
    ELSE IF deadline_str.fmt = "long"
         THEN LET month == month_map_get(Lower(deadline_str.word))
              IN  IF month # None
                  THEN IsoDate(deadline_str.y, month, zfill2(deadline_str.d))
                  ELSE None
    ELSE None

\* datetime.fromisoformat accepts the string (otherwise ValueError)
fromisoformat_ok(iso) ==
    /\ iso.y.width = 4 /\ iso.m.width = 2 /\ iso.d.width = 2
    /\ iso.y.val >= 1
    /\ iso.m.val \in 1..12
    /\ iso.d.val >= 1 /\ iso.d.val <= DaysInMonth(iso.y.val, iso.m.val)

\* now is [ord, tod]: the day's ordinal and the time of day in half days (0, 1).
\* (deadline_dt - now).days, the floor of the difference in days
days_until(iso, now) ==
    ((Ordinal(iso.y.val, iso.m.val, iso.d.val) - now.ord) * 2 - now.tod) \div 2

compute_deadline_bucket(deadline_iso, now) ==
    IF deadline_iso = None THEN "unknown"
    ELSE IF ~fromisoformat_ok(deadline_iso) THEN "unknown"
    ELSE IF days_until(deadline_iso, now) < 7 THEN "immediate"
    ELSE IF days_until(deadline_iso, now) < 30 THEN "near_term"
    ELSE "planning"

\* A money mention: marker "$" or "USD", the amount written, whether float()
\* parses the digits once the commas are gone, and the suffix after it.
Mention(mk, a, sf) == [marker |-> mk, amount |-> a, parses |-> TRUE, suffix |-> sf]
BadMention(mk, sf) == [marker |-> mk, amount |-> 0, parses |-> FALSE, suffix |-> sf]

Text(n, hd, tl) == [len |-> n, head |-> hd, tail |-> tl]
EmptyText == Text(0, <<>>, <<>>)

\* the six patterns in priority order (engine.py 119-126)
budget_patterns ==
    << [marker |-> "$", suffix |-> "M", mult |-> 1000000],
       [marker |-> "$", suffix |-> "K", mult |-> 1000],
       [marker |-> "$", suffix |-> "any", mult |-> 1],
       [marker |-> "USD", suffix |-> "M", mult |-> 1000000],
       [marker |-> "USD", suffix |-> "K", mult |-> 1000],
       [marker |-> "USD", suffix |-> "any", mult |-> 1] >>

PatternMatches(p, m) ==
    m.marker = p.marker /\ (p.suffix = "any" \/ m.suffix = p.suffix)

\* re.search: the first mention of the text the pattern matches, or None
pattern_search(p, ms) ==
    IF \E k \in 1..Len(ms) : PatternMatches(p, ms[k])
    THEN LET k == CHOOSE k \in 1..Len(ms) :
                    /\ PatternMatches(p, ms[k])
                    /\ \A j \in 1..(k - 1) : ~PatternMatches(p, ms[j])
         IN  ms[k]
    ELSE None

RECURSIVE budget_from(_, _)
budget_from(k, ms) ==
    IF k > Len(budget_patterns) THEN None
    ELSE LET match == pattern_search(budget_patterns[k], ms)
         IN  IF match # None /\ match.parses
             THEN [usd |-> match.amount * budget_patterns[k].mult]
             ELSE budget_from(k + 1, ms)

extract_budget(text) ==
    IF text.len = 0 THEN None ELSE budget_from(1, text.head \o text.tail)

compute_budget_bucket(budget_value) ==
    IF budget_value = None THEN "unknown"
    ELSE IF budget_value.usd < 50000 THEN "micro"
    ELSE IF budget_value.usd < 250000 THEN "small"
    ELSE IF budget_value.usd < 1000000 THEN "mid"
    ELSE "enterprise"

compute_decision_planning_only(deadline_bucket, budget_bucket) ==
    IF deadline_bucket = "planning" /\ budget_bucket \in {"mid", "enterprise"}
    THEN "GO"
    ELSE IF deadline_bucket = "planning" /\ budget_bucket \in {"small", "mid"}
    THEN "MAYBE"
    ELSE "NO_GO"

compute_decision(deadline_bucket, budget_bucket) ==
    IF deadline_bucket = "planning" /\ budget_bucket \in {"mid", "enterprise"}
    THEN "GO"
    ELSE IF deadline_bucket \in {"near_term", "planning"}
            /\ budget_bucket \in {"small", "mid"}
    THEN "MAYBE"
    ELSE "NO_GO"

generate_one_liner(item) ==
    item.buyer_org \o " opportunity - " \o item.budget_bucket \o " budget, "
        \o item.deadline_bucket \o " deadline"

generate_tags(item) ==
    "decision_" \o item.decision \o " buyer_" \o item.buyer_type
        \o " budget_" \o item.budget_bucket \o " region_" \o item.region
        \o " deadline_" \o item.deadline_bucket

\* OieScorer.process: the item with its deadline normalized and the scoring
\* fields set, each from the fields set before it
process(item, now) ==
    LET i1 == [deadline |-> parse_deadline(item.deadline)] @@ item
        i2 == [deadline_bucket |-> compute_deadline_bucket(i1.deadline, now)] @@ i1
        i3 == [budget_value |-> extract_budget(i2.description)] @@ i2
        i4 == [budget_bucket |-> compute_budget_bucket(i3.budget_value)] @@ i3
        i5 == [decision |->
                 compute_decision(i4.deadline_bucket, i4.budget_bucket)] @@ i4
        i6 == [one_liner |-> generate_one_liner(i5)] @@ i5
    IN  [tags |-> generate_tags(i6)] @@ i6

-----------------------------------------------------------------------------
(* ingest/fetch.py : MultiSourceFetcher                                      *)

\* the cut of the first paragraph (fetch.py 166)
DescLimit == 500

\* dict.get(key, default)
Get(d, key, default) == IF key \in DOMAIN d THEN d[key] ELSE default

\* An href attribute is [dir, leaf]: dir = "" for a relative reference (a bare
\* last segment), "scheme://host/path/" for an absolute one; None when the
\* element has no href. A URL is an href with dir # "".
Url(dir, leaf) == [dir |-> dir, leaf |-> leaf]
UrlStr(u) == u.dir \o u.leaf
EmptyHref == Url("", "")

\* Python truthiness of link.get("href")
HrefTruthy(h) == h # None /\ h # EmptyHref

\* urllib.parse.urljoin(base, href) for these references
urljoin(base, href) ==
    IF href.dir # "" THEN href ELSE Url(base.dir, href.leaf)

\* An element of a parsed page: its href, its stripped text and its class.
Elem(h, t, c) == [href |-> h, text |-> t, cls |-> c]

PdfLeaves == {"doc.pdf", "alt.pdf"}

\* whether a CSS selector of the configurations matches an element
Matches(selector, el) ==
    CASE selector = "a" -> TRUE
      [] selector = "a.x" -> el.cls = "x"
      [] selector = "a.y" -> el.cls = "y"
      [] selector = "a.z" -> el.cls = "z"
      [] selector = "a[href$='.pdf']" -> el.href # None /\ el.href.leaf \in PdfLeaves
      [] OTHER -> FALSE

\* soup.select(selector): the matching elements in document order
select(doc, selector) == SelectSeq(doc, LAMBDA el : Matches(selector, el))

\* A response of session.get + raise_for_status: [ok |-> FALSE, error] when a
\* requests.RequestException is raised, else the parsed page.
\* e is the text of the exception, str(e).
Failed(e) == [ok |-> FALSE, error |-> e]

\* a request that met no server; the text of a failed detail request is never
\* read (fetch.py 139 does not bind the exception)
NoAnswer == Failed("timed out")

\* str(url) as an f-string renders it
url_text(u) == IF u = None THEN "None" ELSE UrlStr(u)

\* host and path of the URLs of the configurations: "http://<host>/<leaf>"
host_of(u) ==
    CASE u.dir = "http://x/" -> "x"
      [] u.dir = "http://y/" -> "y"
      [] OTHER -> u.dir
path_of(u) == "/" \o u.leaf

\* requests: the text of MissingSchema, raised for a URL without a scheme
\* before any request is sent
missing_schema_text(u) ==
    "Invalid URL '" \o url_text(u) \o "': No scheme supplied. Perhaps you meant https://"
      \o url_text(u) \o "?"

\* the reason phrase of a status line
reason_of(status) ==
    CASE status = 404 -> "Not Found"
      [] status = 429 -> "Too Many Requests"
      [] status = 500 -> "Internal Server Error"
      [] status = 502 -> "Bad Gateway"
      [] status = 503 -> "Service Unavailable"
      [] status = 504 -> "Gateway Timeout"
      [] OTHER -> ""

\* raise_for_status: the text of HTTPError
http_error_text(status, u) ==
    DigitStr(status, 3)
      \o (IF status < 500 THEN " Client Error: " ELSE " Server Error: ")
      \o reason_of(status) \o " for url: " \o UrlStr(u)

\* the text of urllib3's MaxRetryError, which requests' RetryError and
\* ConnectionError carry, for a pool of plain http on port 80
max_retry_text(u, cause) ==
    "HTTPConnectionPool(host='" \o host_of(u) \o "', port=80): Max retries exceeded with url: "
      \o path_of(u) \o " (Caused by " \o cause \o ")"
response_error_cause(status) ==
    "ResponseError('too many " \o DigitStr(status, 3) \o " error responses')"
connection_error_cause ==
    "ProtocolError('Connection aborted.', RemoteDisconnected('Remote end closed connection without response'))"
Page(doc, dates, meta, first_p) ==
    [ok |-> TRUE, doc |-> doc, dates |-> dates, meta |-> meta, first_p |-> first_p]

\* re.search of one deadline pattern: the first date of that format in the text
date_search(fmt, dates) ==
    IF \E k \in 1..Len(dates) : dates[k].fmt = fmt
    THEN LET k == CHOOSE k \in 1..Len(dates) :
                    /\ dates[k].fmt = fmt
                    /\ \A j \in 1..(k - 1) : dates[j].fmt # fmt
         IN  dates[k]
    ELSE None

\* _extract_deadline: the patterns in order long, iso, us; the raw match
extract_deadline(dates) ==
    IF date_search("long", dates) # None THEN date_search("long", dates)
    ELSE IF date_search("iso", dates) # None THEN date_search("iso", dates)
    ELSE date_search("us", dates)

\* text[:n]
Truncate(text, n) ==
    IF text.len <= n THEN text ELSE Text(n, text.head, <<>>)

\* the PDF selector loop (fetch.py 146-153) from selector k on
RECURSIVE pdf_from_first_match(_, _, _, _)
pdf_from_first_match(k, pdf_selectors, doc, url) ==
    IF k > Len(pdf_selectors) THEN None
    ELSE LET pdf_links == select(doc, pdf_selectors[k])
         IN  IF pdf_links # <<>>
             THEN IF HrefTruthy(pdf_links[1].href)
                  THEN urljoin(url, pdf_links[1].href)
                  ELSE None
             ELSE pdf_from_first_match(k + 1, pdf_selectors, doc, url)

RECURSIVE pdf_from(_, _, _, _)
pdf_from(k, pdf_selectors, doc, url) ==
    IF k > Len(pdf_selectors) THEN None
    ELSE LET pdf_links == select(doc, pdf_selectors[k])
         IN  IF pdf_links # <<>> /\ HrefTruthy(pdf_links[1].href)
             THEN urljoin(url, pdf_links[1].href)
             ELSE pdf_from(k + 1, pdf_selectors, doc, url)

\* the description (fetch.py 159-166)
description_of(resp) ==
    IF resp.meta # None /\ resp.meta.len > 0 THEN resp.meta
    ELSE IF resp.first_p # None THEN Truncate(resp.first_p, DescLimit)
    ELSE EmptyText

\* _fetch_listing_detail(url, pdf_selectors, buyer_org) when session.get(url)
\* answers resp
fetch_listing_detail(url, pdf_selectors, resp) ==
    IF ~resp.ok
    THEN [pdf_url |-> None, deadline |-> None, description |-> EmptyText]
    ELSE [pdf_url |-> pdf_from(1, pdf_selectors, resp.doc, url),
          deadline |-> extract_deadline(resp.dates),
          description |-> description_of(resp)]

\* a loop that stops at the first selector that matches anything
RECURSIVE all_links_first_hit(_, _, _)
all_links_first_hit(k, listing_selectors, doc) ==
    IF k > Len(listing_selectors) THEN <<>>
    ELSE IF select(doc, listing_selectors[k]) # <<>>
    THEN select(doc, listing_selectors[k])
    ELSE all_links_first_hit(k + 1, listing_selectors, doc)

\* fetch.py 84-88: every selector's matches, one after the other
RECURSIVE all_links_from(_, _, _)
all_links_from(k, listing_selectors, doc) ==
    IF k > Len(listing_selectors) THEN <<>>
    ELSE select(doc, listing_selectors[k])
             \o all_links_from(k + 1, listing_selectors, doc)

\* fetch.py 91-99: dedup by href with the cap, from link k on
RECURSIVE unique_from(_, _, _, _, _)
unique_from(k, all_links, seen_hrefs, unique_links, max_listings) ==
    IF k > Len(all_links) THEN unique_links
    ELSE LET href == all_links[k].href
         IN  IF HrefTruthy(href) /\ href \notin seen_hrefs
             THEN IF Len(unique_links) + 1 >= max_listings
                  THEN Append(unique_links, all_links[k])
                  ELSE unique_from(k + 1, all_links, seen_hrefs \cup {href},
                                   Append(unique_links, all_links[k]), max_listings)
             ELSE unique_from(k + 1, all_links, seen_hrefs, unique_links,
                              max_listings)

\* the configuration of one source as _fetch_html_index reads it
\* fetch.py 61: source.get("base_url") or source.get("url"); None and "" are
\* falsy
index_url_of(source) ==
    IF HrefTruthy(Get(source, "base_url", None)) THEN source.base_url
    ELSE Get(source, "url", None)
crawl_config_of(source) == Get(source, "crawl", <<>>)
normalize_config_of(source) == Get(source, "normalize", <<>>)
listing_selectors_of(source) ==
    IF DOMAIN crawl_config_of(source) = {}
    THEN <<Get(source, "listing_link_selectors", "a")>>
    ELSE Get(crawl_config_of(source), "listing_link_selectors", <<"a">>)
pdf_selectors_of(source) ==
    IF DOMAIN crawl_config_of(source) = {}
    THEN <<Get(source, "pdf_link_selectors", "a[href$='.pdf']")>>
    ELSE Get(crawl_config_of(source), "pdf_link_selectors", <<"a[href$='.pdf']">>)
max_listings_of(source) == Get(crawl_config_of(source), "max_listings", 50)
\* normalize_config.get(key) or source.get(key, default)
meta_of(source, key, default) ==
    IF Get(normalize_config_of(source), key, "") # ""
    THEN normalize_config_of(source)[key]
    ELSE Get(source, key, default)

\* the links that survive on an index page
unique_links_of(source, doc) ==
    unique_from(1, all_links_from(1, listing_selectors_of(source), doc), {}, <<>>,
                max_listings_of(source))

\* the k-th session.get of a crawl answers resps[k]; past the end it fails
RespAt(resps, k) == IF k <= Len(resps) THEN resps[k] ELSE NoAnswer

\* fetch.py 27-32: the session's Retry(total=3, backoff_factor=0.5,
\* status_forcelist=[429, 500, 502, 503, 504], allowed_methods=["GET", "HEAD"])
retry_total == 3
status_forcelist == {429, 500, 502, 503, 504}

\* what one HTTP attempt meets: a response with a status, or a connection error
Answer(status) == [conn |-> FALSE, status |-> status]
ConnError == [conn |-> TRUE, status |-> 0]

\* Retry.is_retry for a GET answered without a Retry-After header; a connection
\* error on a GET is always handed to Retry.increment
is_retry(a) == a.conn \/ a.status \in status_forcelist

\* Retry.increment takes one from the counter; Retry.is_exhausted: the new
\* counter is below zero, and MaxRetryError is raised in place of a retry
increment(total) == total - 1
is_exhausted(total) == total < 0

\* fetch.py 75-79, 136-139: what the caller's try block ends with when the
\* session stops at attempt a with counter total: requests raises RetryError or
\* ConnectionError once the counter is exhausted, raise_for_status raises
\* HTTPError for a status of 400 and above, else the response holds the page
session_result(a, total, u, page) ==
    IF is_retry(a) /\ is_exhausted(increment(total))
    THEN Failed(max_retry_text(u, IF a.conn THEN connection_error_cause
                                  ELSE response_error_cause(a.status)))
    ELSE IF a.status >= 400 THEN Failed(http_error_text(a.status, u))
    ELSE page

\* fetch.py 101-129: the item of the j-th surviving link
item_of(source, link, resp) ==
    LET canonical_url == urljoin(index_url_of(source), link.href)
        detail_data == fetch_listing_detail(canonical_url, pdf_selectors_of(source),
                                            resp)
    IN  [title |-> IF link.text # "" THEN link.text ELSE "Untitled",
         canonical_url |-> UrlStr(canonical_url),
         buyer_org |-> meta_of(source, "buyer_org", "Unknown"),
         buyer_type |-> meta_of(source, "buyer_type", "unknown"),
         region |-> meta_of(source, "region", "unknown"),
         pdf_url |-> detail_data.pdf_url,
         deadline |-> detail_data.deadline,
         description |-> detail_data.description]

\* a crawl in which a failed detail request fails the whole source
fetch_html_index_detail_fatal(source, resps) ==
    IF index_url_of(source) = None \/ ~RespAt(resps, 1).ok
    THEN [ok |-> FALSE, error |-> "Failed to fetch index"]
    ELSE LET unique_links == unique_links_of(source, resps[1].doc)
         IN  IF \E j \in 1..Len(unique_links) : ~RespAt(resps, j + 1).ok
             THEN [ok |-> FALSE, error |-> "Failed to fetch detail"]
             ELSE [ok |-> TRUE,
                   items |-> [j \in 1..Len(unique_links) |->
                                item_of(source, unique_links[j], RespAt(resps, j + 1))]]

\* _fetch_html_index(source) when the crawl's requests answer resps in order:
\* [ok |-> TRUE, items] or, when RuntimeError is raised, [ok |-> FALSE, error]
\* A URL without a scheme (None and "" among them) is refused before any
\* request.
fetch_html_index(source, resps) ==
    LET index_url == index_url_of(source)
        response == IF index_url = None \/ index_url.dir = ""
                    THEN Failed(missing_schema_text(index_url))
                    ELSE RespAt(resps, 1)
    IN  IF ~response.ok
        THEN [ok |-> FALSE,
              error |-> "Failed to fetch index " \o url_text(index_url) \o ": "
                          \o response.error]
        ELSE LET unique_links == unique_links_of(source, response.doc)
             IN  [ok |-> TRUE,
                  items |-> [j \in 1..Len(unique_links) |->
                               item_of(source, unique_links[j], RespAt(resps, j + 1))]]

\* fetch_source(source): ValueError for any type but html_index
fetch_source(source, resps) ==
    IF Get(source, "type", "None") = "html_index"
    THEN fetch_html_index(source, resps)
    ELSE [ok |-> FALSE,
          error |-> "Unsupported source type: " \o Get(source, "type", "None")]

-----------------------------------------------------------------------------
(* ingest/run.py : the ingestion driver                                      *)

\* the key of stable_id (run.py 19-26); the fetcher's items always carry the
\* key "deadline", so an absent deadline is str(None)
stable_key(item) ==
    Get(item, "source_id", "") \o "|" \o Get(item, "canonical_url", "") \o "|"
        \o Get(item, "title", "") \o "|"
        \o (IF "deadline" \in DOMAIN item THEN DeadlineStr(item.deadline) ELSE "")

\* a stable_id that also hashes the fetch time
stable_id_with_fetched_at(item) ==
    stable_key(item) \o "|" \o DigitStr(item.fetched_at.ord * 2 + item.fetched_at.tod, 7)

\* sha256 is taken as injective: the id is the key itself
stable_id(item) == stable_key(item)

\* a loader that misses the last line of the log
load_existing_ids_without_last(h) == {h[k].id : k \in 1..(Len(h) - 1)}

\* run.py 30-40: the ids of the lines of the history log
load_existing_ids(h) == {h[k].id : k \in 1..Len(h)}

append_history(h, items) == h \o items

\* run.py 71-73: the item with source_id, fetched_at and id set, in that order
tagged(item, source, now) ==
    LET i1 == [source_id |-> source.id] @@ item
        i2 == [fetched_at |-> now] @@ i1
    IN  [id |-> stable_id(i2)] @@ i2

\* a loop that also remembers the ids it has scored in this run
RECURSIVE new_from_marking(_, _, _, _, _)
new_from_marking(k, items, source, ids, reads) ==
    IF k > Len(items) THEN <<>>
    ELSE LET item == tagged(items[k], source, reads[2 * k - 1])
         IN  IF item.id \in ids
             THEN new_from_marking(k + 1, items, source, ids, reads)
             ELSE <<process(item, reads[2 * k])>>
                    \o new_from_marking(k + 1, items, source, ids \cup {item.id}, reads)

\* run.py 70-79: the records the loop over one source's items appends, from
\* item k on. The clock is read for each item's fetched_at (run.py 72) and read
\* again by the scorer (engine.py 97): reads[2k-1] and reads[2k] for item k.
RECURSIVE new_from(_, _, _, _, _)
new_from(k, items, source, ids, reads) ==
    IF k > Len(items) THEN <<>>
    ELSE LET item == tagged(items[k], source, reads[2 * k - 1])
         IN  IF item.id \in ids
             THEN new_from(k + 1, items, source, ids, reads)
             ELSE <<process(item, reads[2 * k])>>
                    \o new_from(k + 1, items, source, ids, reads)

\* run.py 82-87
failure_of(source, error) ==
    [source_id |-> Get(source, "id", None), error |-> error]

-----------------------------------------------------------------------------
(* Bounds and the inputs the specifications draw from                        *)

MaxRuns == 2        \* driver runs in sequence
MaxAnchors == 3     \* anchors on an index page of the crawler unit
MaxPdfAnchors == 2  \* anchors on a detail page of the detail unit
MaxDay == 32        \* largest day-of-month digit pair written in a deadline

\* all sequences over S of length at most n
RECURSIVE SeqsUpTo(_, _)
SeqsUpTo(S, n) ==
    IF n = 0 THEN {<<>>}
    ELSE LET shorter == SeqsUpTo(S, n - 1)
         IN  shorter \cup {Append(q, x) : q \in {r \in shorter : Len(r) = n - 1}, x \in S}

Base == Url("http://x/", "")

\* the clock values a run may read: 2025-01-01 at 00:00 and at 12:00
Clocks == {[ord |-> Ordinal(2025, 1, 1), tod |-> t] : t \in {0, 1}}
ClockLeq(a, b) == a.ord * 2 + a.tod <= b.ord * 2 + b.tod

\* what n successive reads of the clock may give, none earlier than from
RECURSIVE ClockReads(_, _)
ClockReads(from, n) ==
    IF n = 0 THEN {<<>>}
    ELSE UNION { {<<t>> \o r : r \in ClockReads(t, n - 1)} :
                   t \in {c \in Clocks : ClockLeq(from, c)} }

\* descriptions
Para == Text(120, <<Mention("$", 500, "K")>>, <<>>)
LongPara == Text(620, <<Mention("$", 75, "K")>>, <<Mention("$", 2, "M")>>)
LongMeta == Text(501, <<Mention("USD", 2, "M")>>, <<>>)

\* detail pages
PageDue == Page(<<Elem(Url("", "doc.pdf"), "PDF", "z")>>,
                <<UsDate(Num(3, 1), Num(4, 1), Num(2025, 4))>>, None, Para)
PagePlain == Page(<<>>, <<>>, None, LongPara)
PageMeta == Page(<<>>, <<IsoDate(Num(2025, 4), Num(13, 2), Num(45, 2))>>, LongMeta, Para)

\* index pages: only the anchors matter
Idx(doc) == Page(doc, <<>>, None, None)

\* anchors of the driver's index pages: two listings whose URL and title differ
\* but join to one key, the absolute spelling of the first, and a plain one
AnchorA == Elem(Url("", "a"), "b|c", "x")
AnchorPipe == Elem(Url("", "a|b"), "c", "x")
AnchorAbs == Elem(Url("http://x/", "a"), "b|c", "x")
AnchorQ == Elem(Url("", "q"), "Tender Q", "x")

SourceOne ==
    [id |-> "s1", type |-> "html_index", base_url |-> Base,
     crawl |-> [listing_link_selectors |-> <<"a.x">>,
                pdf_link_selectors |-> <<"a.z">>, max_listings |-> 10],
     normalize |-> [buyer_org |-> "Org One", region |-> "europe"],
     buyer_type |-> "federal"]
\* the old flat schema
SourceTwo ==
    [id |-> "s2", type |-> "html_index", url |-> Url("http://y/", ""),
     listing_link_selectors |-> "a", pdf_link_selectors |-> "a.z",
     buyer_org |-> "Org Two"]
SourceRss == [id |-> "s3", type |-> "rss", base_url |-> Base]

Configs == {<<>>, <<SourceOne>>, <<SourceRss, SourceOne>>,
            <<SourceOne, SourceRss, SourceTwo>>}

\* what the requests of one source's crawl answer, in order
\* the index request gave 503 until the retries ran out
IndexDown(source) ==
    Failed(max_retry_text(index_url_of(source), response_error_cause(503)))

DriverWebs(source) ==
    { <<IndexDown(source)>>,
      <<Idx(<<AnchorA, AnchorPipe>>)>>,
      <<Idx(<<AnchorA, AnchorAbs>>), PageDue, PageDue>>,
      <<Idx(<<AnchorQ>>), PageDue>>,
      <<Idx(<<AnchorQ>>), PagePlain>> }

-----------------------------------------------------------------------------
(* The driver: main() of run.py, one action per step                         *)

DrvInit ==
    /\ config \in Configs
    /\ history = <<>>
    /\ pc = "idle"
    /\ src_i = 1
    /\ existing_ids = {}
    /\ new_records = <<>>
    /\ failures = <<>>
    /\ clock = [ord |-> Ordinal(2025, 1, 1), tod |-> 0]
    /\ runs = 0
    /\ prev_items = <<>>
    /\ cur_items = <<>>
    /\ hist_at_start = <<>>
    /\ dup_run = FALSE

\* the candidates fetch_source has returned so far in this run: <<source, item>>
Cands ==
    UNION { {<<k, j>> : j \in 1..Len(cur_items[k].items)} :
              k \in {i \in 1..Len(cur_items) : cur_items[i].ok} }

\* the id main gives candidate c
CandId(c) == tagged(cur_items[c[1]].items[c[2]], config[c[1]], clock).id

\* this run's crawl output holds two candidates with one id
RunHasDup == \E c1 \in Cands, c2 \in Cands : c1 # c2 /\ CandId(c1) = CandId(c2)

\* run.py 50-65: a run starts, loads the seen ids and empties its lists
StartRun ==
    /\ pc = "idle"
    /\ runs < MaxRuns
    /\ \E t \in Clocks : ClockLeq(clock, t) /\ clock' = t
    /\ existing_ids' = load_existing_ids(history)
    /\ new_records' = <<>>
    /\ failures' = <<>>
    /\ src_i' = 1
    /\ pc' = "sources"
    /\ prev_items' = cur_items
    /\ cur_items' = <<>>
    /\ hist_at_start' = history
    /\ UNCHANGED <<config, history, runs, dup_run>>

\* a loop body that gives up on the remaining sources when one fails
CrawlSourceAborting ==
    /\ pc = "sources"
    /\ src_i <= Len(config)
    /\ \E resps \in DriverWebs(config[src_i]) :
         LET source == config[src_i]
             res == fetch_source(source, resps)
             n == IF res.ok THEN Len(res.items) ELSE 0
         IN  \E reads \in ClockReads(clock, 2 * n + 1) :
                /\ clock' = reads[2 * n + 1]
                /\ cur_items' = Append(cur_items, res)
                /\ IF res.ok
                   THEN /\ new_records' = new_records
                             \o new_from(1, res.items, source, existing_ids, reads)
                        /\ failures' = failures
                        /\ src_i' = src_i + 1
                   ELSE /\ new_records' = new_records
                        /\ failures' = Append(failures, failure_of(source, res.error))
                        /\ src_i' = Len(config) + 1
    /\ UNCHANGED <<config, history, pc, existing_ids, runs, prev_items, hist_at_start,
                   dup_run>>

\* run.py 67-87: one iteration of the loop over the sources. The source's
\* requests answer resps; the clock is read twice for each item (see new_from)
\* and stands at the last of reads when the iteration ends. source["id"]
\* raises KeyError at the first item of a source that has no id.
CrawlSource ==
    /\ pc = "sources"
    /\ src_i <= Len(config)
    /\ \E resps \in DriverWebs(config[src_i]) :
         LET source == config[src_i]
             res == fetch_source(source, resps)
             n == IF res.ok /\ "id" \in DOMAIN source THEN Len(res.items) ELSE 0
         IN  \E reads \in ClockReads(clock, 2 * n + 1) :
                /\ clock' = reads[2 * n + 1]
                /\ cur_items' = Append(cur_items, res)
                /\ IF ~res.ok
                   THEN /\ new_records' = new_records
                        /\ failures' = Append(failures, failure_of(source, res.error))
                   ELSE IF res.items # <<>> /\ "id" \notin DOMAIN source
                   THEN /\ new_records' = new_records
                        /\ failures' = Append(failures, failure_of(source, "'id'"))
                   ELSE /\ new_records' = new_records
                             \o new_from(1, res.items, source, existing_ids, reads)
                        /\ failures' = failures
    /\ src_i' = src_i + 1
    /\ UNCHANGED <<config, history, pc, existing_ids, runs, prev_items, hist_at_start,
                   dup_run>>

\* run.py 89-95: the batch append and the report
FinishRun ==
    /\ pc = "sources"
    /\ src_i > Len(config)
    /\ history' = IF new_records # <<>> THEN append_history(history, new_records)
                  ELSE history
    /\ pc' = "idle"
    /\ runs' = runs + 1
    /\ dup_run' = (dup_run \/ RunHasDup)
    /\ UNCHANGED <<config, src_i, existing_ids, new_records, failures, clock,
                   prev_items, cur_items, hist_at_start>>

-----------------------------------------------------------------------------
(* The units: one call of fetch_source, of _fetch_listing_detail, of process *)

CrOff == cr_source = None /\ cr_web = <<>> /\ cr_out = None /\ cr_pc = "off"
DtOff == dt_sel = <<>> /\ dt_resp = None /\ dt_out = None /\ dt_pc = "off"
ScOff == sc_item = None /\ sc_now = None /\ sc_pc = "off"
FtOff ==
    /\ ft_kind = "off" /\ ft_total = 0 /\ ft_log = <<>>
    /\ ft_resp = None /\ ft_out = None /\ ft_pc = "off"
DrvOff ==
    /\ config = <<>> /\ history = <<>> /\ pc = "off" /\ src_i = 1
    /\ existing_ids = {} /\ new_records = <<>> /\ failures = <<>>
    /\ clock = None /\ runs = 0 /\ prev_items = <<>> /\ cur_items = <<>>
    /\ hist_at_start = <<>>
    /\ dup_run = FALSE

Init == DrvInit /\ CrOff /\ DtOff /\ ScOff /\ FtOff

Next ==
    \/ StartRun /\ UNCHANGED <<cr_vars, dt_vars, sc_vars, ft_vars>>
    \/ CrawlSource /\ UNCHANGED <<cr_vars, dt_vars, sc_vars, ft_vars>>
    \/ FinishRun /\ UNCHANGED <<cr_vars, dt_vars, sc_vars, ft_vars>>

Spec == Init /\ [][Next]_vars

-----------------------------------------------------------------------------
(* Crawler unit: fetch_source on one source, the requests answered by cr_web *)

\* anchors of the unit's index pages: two with one href and different texts,
\* one with no text, one with no href, and a third distinct link
CrawlAnchors ==
    { Elem(Url("", "a"), "First", "y"),
      Elem(Url("", "a"), "Second", "x"),
      Elem(Url("", "b"), "", "y"),
      Elem(None, "No link", "y"),
      Elem(Url("", "c"), "Third", "y") }

UnitSource(sels, max) ==
    [id |-> "s1", type |-> "html_index", base_url |-> Base,
     crawl |-> [listing_link_selectors |-> sels, pdf_link_selectors |-> <<"a.z">>,
                max_listings |-> max],
     buyer_org |-> "Org One"]

CrawlSources ==
    { UnitSource(<<"a.z", "a.y">>, 10),
      UnitSource(<<"a.x", "a.y">>, 2),
      UnitSource(<<"a.y", "a.x">>, 1),
      UnitSource(<<"a">>, 3),
      UnitSource(<<"a.y", "a">>, 2),
      SourceRss }

CrawlDetails == {NoAnswer, PageDue, PageMeta}

\* the answers to the requests a crawl of src makes when its index page is doc
CrawlWebs(src, doc) ==
    {<<IndexDown(src)>>} \cup
    { <<Idx(doc)>> \o ds :
        ds \in { q \in SeqsUpTo(CrawlDetails, MaxAnchors) :
                   Len(q) = Len(unique_links_of(src, doc)) } }

CrInit ==
    /\ \E src \in CrawlSources, doc \in SeqsUpTo(CrawlAnchors, MaxAnchors) :
         /\ cr_source = src
         /\ cr_web \in CrawlWebs(src, doc)
    /\ cr_out = None
    /\ cr_pc = "call"

CrawlFetch ==
    /\ cr_pc = "call"
    /\ cr_out' = fetch_source(cr_source, cr_web)
    /\ cr_pc' = "done"
    /\ UNCHANGED <<cr_source, cr_web>>

CrawlNext == CrawlFetch /\ UNCHANGED <<drv_vars, dt_vars, sc_vars, ft_vars>>

InitCrawl == DrvOff /\ CrInit /\ DtOff /\ ScOff /\ FtOff

SpecCrawl == InitCrawl /\ [][CrawlNext]_vars

-----------------------------------------------------------------------------
(* Detail unit: _fetch_listing_detail on one page                            *)

DetailUrl == Url("http://x/", "a")

PdfElems ==
    { Elem(Url("", "doc.pdf"), "PDF", "z"),
      Elem(None, "no href", "x"),
      Elem(EmptyHref, "empty href", "y"),
      Elem(Url("http://cdn/", "alt.pdf"), "Alt", "x") }

PdfSelectorLists ==
    { <<>>, <<"a.z">>, <<"a.x", "a.z">>, <<"a.y", "a.x", "a.z">>,
      <<"a[href$='.pdf']", "a.x">> }

DetailDates ==
    { <<>>,
      <<UsDate(Num(3, 1), Num(4, 1), Num(2025, 4))>>,
      <<IsoDate(Num(2025, 4), Num(2, 2), Num(30, 2)),
        LongDate("March", Num(4, 1), Num(2025, 4))>> }

DetailMetas == {None, EmptyText, Text(80, <<>>, <<>>), LongMeta}
DetailParas == {None, Para, LongPara}

DetailResps ==
    {NoAnswer} \cup
    { Page(doc, dates, meta, para) :
        doc \in SeqsUpTo(PdfElems, MaxPdfAnchors), dates \in DetailDates,
        meta \in DetailMetas, para \in DetailParas }

DtInit ==
    /\ dt_sel \in PdfSelectorLists
    /\ dt_resp \in DetailResps
    /\ dt_out = None
    /\ dt_pc = "call"

DetailFetch ==
    /\ dt_pc = "call"
    /\ dt_out' = fetch_listing_detail(DetailUrl, dt_sel, dt_resp)
    /\ dt_pc' = "done"
    /\ UNCHANGED <<dt_sel, dt_resp>>

DetailNext == DetailFetch /\ UNCHANGED <<drv_vars, cr_vars, sc_vars, ft_vars>>

InitDetail == DrvOff /\ CrOff /\ DtInit /\ ScOff /\ FtOff

SpecDetail == InitDetail /\ [][DetailNext]_vars

-----------------------------------------------------------------------------
(* Scorer unit: OieScorer.process on one item at one time                    *)

\* a digit string of 1 digit below ten, of 2 digits otherwise
Short(v) == Num(v, IF v < 10 THEN 1 ELSE 2)

ScoreYears == {2024, 2025}

ScoreDeadlines ==
    {None, OtherText(""), OtherText("not a date")}
    \cup { IsoDate(Num(y, 4), Num(m, 2), Num(d, 2)) :
             y \in ScoreYears, m \in 0..13, d \in 0..MaxDay }
    \cup { UsDate(Short(m), Short(d), Num(y, 4)) :
             y \in ScoreYears, m \in 0..13, d \in 0..MaxDay }
    \cup { LongDate(w, Short(d), Num(2025, 4)) : w \in Words, d \in 0..MaxDay }

ScoreDescriptions ==
    { EmptyText,
      Text(40, <<>>, <<>>),
      Text(40, <<Mention("$", 10, "K")>>, <<>>),
      Text(40, <<Mention("USD", 75, "K")>>, <<>>),
      Text(60, <<Mention("$", 500000, ""), Mention("$", 3, "K")>>, <<>>),
      Text(60, <<BadMention("$", "M"), Mention("USD", 2, "M")>>, <<>>),
      Para, LongMeta }

ScoreItem(dl, desc) ==
    [title |-> "Tender", canonical_url |-> "http://x/a", source_id |-> "s1",
     buyer_org |-> "Org One", buyer_type |-> "federal", region |-> "europe",
     pdf_url |-> None, deadline |-> dl, description |-> desc]

ScInit ==
    /\ \E dl \in ScoreDeadlines, desc \in ScoreDescriptions :
         sc_item = ScoreItem(dl, desc)
    /\ sc_now \in Clocks
    /\ sc_pc = "call"

ScoreProcess ==
    /\ sc_pc = "call"
    /\ sc_item' = process(sc_item, sc_now)
    /\ sc_pc' = "scored"
    /\ UNCHANGED sc_now

ScoreNext == ScoreProcess /\ UNCHANGED <<drv_vars, cr_vars, dt_vars, ft_vars>>

InitScore == DrvOff /\ CrOff /\ DtOff /\ ScInit /\ FtOff

SpecScore == InitScore /\ [][ScoreNext]_vars

-----------------------------------------------------------------------------
(* Fetch unit: one page fetch, attempt by attempt, then what its caller does *)

\* the statuses an attempt may be answered with
FetchStatuses == {200, 404} \cup status_forcelist
FetchAnswers == {Answer(st) : st \in FetchStatuses} \cup {ConnError}

FetchSource == UnitSource(<<"a">>, 3)
FetchUrl(kind) == IF kind = "index" THEN index_url_of(FetchSource) ELSE DetailUrl
FetchPage(kind) == IF kind = "index" THEN Idx(<<AnchorQ>>) ELSE PageDue

FtInit ==
    /\ ft_kind \in {"index", "detail"}
    /\ ft_total = retry_total
    /\ ft_log = <<>>
    /\ ft_resp = None
    /\ ft_out = None
    /\ ft_pc = "attempt"

\* one HTTP attempt of session.get: the adapter sends the request; a transient
\* failure is retried (after the backoff sleep) unless the counter is exhausted
SessionAttempt ==
    /\ ft_pc = "attempt"
    /\ \E a \in FetchAnswers :
         /\ ft_log' = Append(ft_log, a)
         /\ IF is_retry(a) /\ ~is_exhausted(increment(ft_total))
            THEN /\ ft_total' = increment(ft_total)
                 /\ ft_resp' = ft_resp
                 /\ ft_pc' = ft_pc
            ELSE /\ ft_total' = ft_total
                 /\ ft_resp' = session_result(a, ft_total, FetchUrl(ft_kind),
                                              FetchPage(ft_kind))
                 /\ ft_pc' = "returned"
    /\ UNCHANGED <<ft_kind, ft_out>>

\* the caller goes on from its try block: fetch_source for the index page (the
\* detail requests of the listings it finds are left unanswered),
\* _fetch_listing_detail for a detail page
FetchReturn ==
    /\ ft_pc = "returned"
    /\ ft_out' = IF ft_kind = "index"
                 THEN fetch_source(FetchSource, <<ft_resp>>)
                 ELSE fetch_listing_detail(DetailUrl, <<"a.z">>, ft_resp)
    /\ ft_pc' = "done"
    /\ UNCHANGED <<ft_kind, ft_total, ft_log, ft_resp>>

FetchNext ==
    \/ SessionAttempt /\ UNCHANGED <<drv_vars, cr_vars, dt_vars, sc_vars>>
    \/ FetchReturn /\ UNCHANGED <<drv_vars, cr_vars, dt_vars, sc_vars>>

InitFetch == DrvOff /\ CrOff /\ DtOff /\ ScOff /\ FtInit

SpecFetch == InitFetch /\ [][FetchNext]_vars

-----------------------------------------------------------------------------
(* Properties of the driver (Spec)                                           *)

\* the raw crawl tuple of candidate c
CandTuple(c) ==
    LET item == cur_items[c[1]].items[c[2]]
    IN  <<config[c[1]].id, item.canonical_url, item.title, item.deadline>>

\* C1: when a run has crawled exactly what the run before it crawled, it
\* appends nothing: every id it computed was among the ids loaded from the
\* history, its list of new records is empty and the history is unchanged.
C1_SecondRunAddsNothing ==
    (pc = "idle" /\ runs >= 2 /\ cur_items = prev_items) =>
        /\ \A c \in Cands : CandId(c) \in existing_ids
        /\ new_records = <<>>
        /\ history = hist_at_start

C1_Witness ==
    /\ pc = "idle" /\ runs >= 2 /\ cur_items = prev_items
    /\ Cands # {}
    /\ history # <<>>

\* C2: after a run every configured source has been crawled, each source whose
\* crawl raised has exactly one failure entry carrying its id and the error,
\* nothing else is a failure, and every new candidate of every source whose
\* crawl did not raise is in the part of the history this run appended.
C2_FailureIsolation ==
    (pc = "idle" /\ runs >= 1) =>
        /\ Len(cur_items) = Len(config)
        /\ Len(failures) = Cardinality({k \in 1..Len(cur_items) : ~cur_items[k].ok})
        /\ \A k \in 1..Len(cur_items) :
             ~cur_items[k].ok =>
                Cardinality({f \in 1..Len(failures) :
                               /\ failures[f].source_id = config[k].id
                               /\ failures[f].error = cur_items[k].error}) = 1
        /\ \A c \in Cands :
             CandId(c) \notin load_existing_ids(hist_at_start) =>
                \E p \in (Len(hist_at_start) + 1)..Len(history) :
                    /\ history[p].id = CandId(c)
                    /\ history[p].source_id = config[c[1]].id
                    /\ history[p].title = cur_items[c[1]].items[c[2]].title

C2_Witness ==
    /\ pc = "idle" /\ runs >= 1
    /\ \E k \in 1..Len(cur_items) :
         /\ ~cur_items[k].ok
         /\ \E c \in Cands :
              /\ c[1] > k
              /\ \E p \in (Len(hist_at_start) + 1)..Len(history) :
                   history[p].source_id = config[c[1]].id

\* C6: any two candidates of a run whose tuples (source id, canonical URL,
\* title, raw deadline) differ in some component get different ids.
C6_DistinctTuplesDistinctIds ==
    \A c1 \in Cands, c2 \in Cands :
        CandTuple(c1) # CandTuple(c2) => CandId(c1) # CandId(c2)

\* C10: the ids a run checks against are the ids the history held when the run
\* started, at every step of the run; the run's new records are, one for one,
\* the candidates whose id the history did not hold at the start, duplicates
\* within the run included.
C10_SeenSetFixedDuringRun ==
    /\ existing_ids = load_existing_ids(hist_at_start)
    /\ Len(new_records) =
         Cardinality({c \in Cands : CandId(c) \notin load_existing_ids(hist_at_start)})
    /\ \A r \in 1..Len(new_records) :
         new_records[r].id \notin load_existing_ids(hist_at_start)

C10_Witness ==
    /\ pc = "idle" /\ runs >= 1
    /\ \E a \in 1..Len(history), b \in 1..Len(history) :
         /\ a < b
         /\ a > Len(hist_at_start)
         /\ history[a].id = history[b].id
         /\ history[a].canonical_url = history[b].canonical_url
         /\ history[a].title = history[b].title

-----------------------------------------------------------------------------
(* Properties of the crawler unit (SpecCrawl)                                *)

\* the index request of the unit's crawl was answered with a page
IndexFetched ==
    /\ cr_pc = "done"
    /\ Get(cr_source, "type", "None") = "html_index"
    /\ index_url_of(cr_source) # None
    /\ cr_web[1].ok

\* the crawl's answers with every detail answer but the j-th turned to a failure
OnlyDetail(resps, j) ==
    [k \in 1..Len(resps) |->
        IF k = 1 \/ k = j + 1 THEN resps[k] ELSE NoAnswer]

\* C3: when the index page is fetched the crawl returns, with one candidate per
\* surviving link whichever detail requests fail; a candidate whose detail
\* request failed has no pdf_url, no deadline and an empty description, and a
\* candidate is what it would be had every other detail request failed.
C3_DetailFailureDegradesOneListing ==
    IndexFetched =>
        /\ cr_out.ok
        /\ Len(cr_out.items) = Len(unique_links_of(cr_source, cr_web[1].doc))
        /\ \A j \in 1..Len(cr_out.items) :
             /\ ~RespAt(cr_web, j + 1).ok =>
                   /\ cr_out.items[j].pdf_url = None
                   /\ cr_out.items[j].deadline = None
                   /\ cr_out.items[j].description = EmptyText
             /\ LET alone == fetch_source(cr_source, OnlyDetail(cr_web, j))
                IN  alone.ok /\ alone.items[j] = cr_out.items[j]

C3_Witness ==
    /\ IndexFetched
    /\ cr_out.ok
    /\ \E j \in 1..Len(cr_out.items), i \in 1..Len(cr_out.items) :
         /\ ~RespAt(cr_web, j + 1).ok
         /\ cr_out.items[j].deadline = None
         /\ RespAt(cr_web, i + 1).ok
         /\ cr_out.items[i].deadline # None

\* the concatenation of the match lists of selectors k.. of sels on doc
RECURSIVE MatchLists(_, _, _)
MatchLists(k, sels, doc) ==
    IF k > Len(sels) THEN <<>>
    ELSE SelectSeq(doc, LAMBDA el : Matches(sels[k], el)) \o MatchLists(k + 1, sels, doc)

\* the positions of a list of elements that hold a non-empty href not held by
\* an earlier position
FirstSeen(all) ==
    { k \in 1..Len(all) :
        /\ all[k].href # None /\ all[k].href # EmptyHref
        /\ \A i \in 1..(k - 1) : all[i].href # all[k].href }

\* C4: with max_listings >= 1 the candidates are, in order, the elements at the
\* first min(max_listings, n) first-seen positions of the concatenated match
\* lists of all the selectors (n the number of distinct non-empty hrefs): each
\* candidate has that element's href resolved against the index URL and that
\* element's text, or "Untitled" when it has none.
C4_ListingExtraction ==
    (IndexFetched /\ max_listings_of(cr_source) >= 1) =>
        LET all == MatchLists(1, listing_selectors_of(cr_source), cr_web[1].doc)
            P == FirstSeen(all)
            n == IF Cardinality(P) < max_listings_of(cr_source)
                 THEN Cardinality(P) ELSE max_listings_of(cr_source)
        IN  /\ cr_out.ok
            /\ Len(cr_out.items) = n
            /\ \A j \in 1..n :
                 LET p == CHOOSE p \in P : Cardinality({q \in P : q <= p}) = j
                 IN  /\ cr_out.items[j].canonical_url =
                           (IF all[p].href.dir # "" THEN all[p].href.dir
                            ELSE index_url_of(cr_source).dir) \o all[p].href.leaf
                     /\ cr_out.items[j].title =
                           (IF all[p].text = "" THEN "Untitled" ELSE all[p].text)

\* the first selector matches nothing, the second matches three distinct links
C4_Witness ==
    /\ IndexFetched
    /\ max_listings_of(cr_source) >= 1
    /\ Len(listing_selectors_of(cr_source)) = 2
    /\ select(cr_web[1].doc, listing_selectors_of(cr_source)[1]) = <<>>
    /\ LET second == select(cr_web[1].doc, listing_selectors_of(cr_source)[2])
       IN  /\ Len(second) = 3
           /\ Cardinality({second[k].href : k \in 1..3}) = 3
           /\ \A k \in 1..3 : HrefTruthy(second[k].href)
    /\ Len(cr_out.items) = 3

\* two anchors with one href and different texts give one candidate, the first's
C4_DedupReached ==
    /\ IndexFetched
    /\ cr_web[1].doc = <<Elem(Url("", "a"), "Second", "x"), Elem(Url("", "a"), "First", "y")>>
    /\ listing_selectors_of(cr_source) = <<"a">>
    /\ Len(cr_out.items) = 1
    /\ cr_out.items[1].title = "Second"

\* C8: every candidate the crawler emits has a description of at most
\* DescLimit characters.
C8_DescriptionWithinLimit ==
    (cr_pc = "done" /\ cr_out.ok) =>
        \A j \in 1..Len(cr_out.items) : cr_out.items[j].description.len <= DescLimit

-----------------------------------------------------------------------------
(* Properties of the detail unit (SpecDetail)                                *)

\* the selectors, by position, that match something on the fetched page
MatchingSelectors ==
    {k \in 1..Len(dt_sel) : select(dt_resp.doc, dt_sel[k]) # <<>>}

\* the first element selector k matches
FirstMatch(k) == select(dt_resp.doc, dt_sel[k])[1]

\* the selectors whose first match carries a non-empty href
SelectorsWithHref == {k \in MatchingSelectors : HrefTruthy(FirstMatch(k).href)}

Least(S) == CHOOSE k \in S : \A j \in S : k <= j

\* C9 as claimed: the first selector that matches anything decides pdf_url (its
\* first element's href resolved against the page URL, nothing when that
\* element has no href) and no later selector is consulted.
C9_FirstMatchingSelectorDecides ==
    (dt_pc = "done" /\ dt_resp.ok) =>
        IF MatchingSelectors = {} THEN dt_out.pdf_url = None
        ELSE LET el == FirstMatch(Least(MatchingSelectors))
             IN  dt_out.pdf_url =
                    (IF HrefTruthy(el.href) THEN urljoin(DetailUrl, el.href) ELSE None)

\* C9 amended: the first selector whose first matched element carries a
\* non-empty href decides pdf_url, the resolution of that href against the
\* page URL; selectors whose first match has no href are passed over; pdf_url
\* is absent exactly when there is no such selector.
C9_FirstSelectorWithHrefDecides ==
    (dt_pc = "done" /\ dt_resp.ok) =>
        IF SelectorsWithHref = {} THEN dt_out.pdf_url = None
        ELSE /\ dt_out.pdf_url # None
             /\ dt_out.pdf_url =
                  urljoin(DetailUrl, FirstMatch(Least(SelectorsWithHref)).href)

\* an earlier selector matched an element without href and a later one decided
C9_Witness ==
    /\ dt_pc = "done" /\ dt_resp.ok
    /\ SelectorsWithHref # {}
    /\ Least(MatchingSelectors) < Least(SelectorsWithHref)
    /\ dt_out.pdf_url = urljoin(DetailUrl, FirstMatch(Least(SelectorsWithHref)).href)

-----------------------------------------------------------------------------
(* Properties of the scorer unit (SpecScore)                                 *)

\* C5: the decision is GO exactly for a planning deadline with a mid or
\* enterprise budget, otherwise MAYBE exactly for a near_term or planning
\* deadline with a small or mid budget, otherwise NO_GO; so an immediate or
\* unknown deadline gives NO_GO and planning with mid gives GO.
C5_DecisionTable ==
    sc_pc = "scored" =>
        LET db == sc_item.deadline_bucket
            bb == sc_item.budget_bucket
            go == db = "planning" /\ bb \in {"mid", "enterprise"}
            maybe == db \in {"near_term", "planning"} /\ bb \in {"small", "mid"}
        IN  /\ db \in {"immediate", "near_term", "planning", "unknown"}
            /\ bb \in {"micro", "small", "mid", "enterprise", "unknown"}
            /\ (sc_item.decision = "GO") <=> go
            /\ (sc_item.decision = "MAYBE") <=> (~go /\ maybe)
            /\ (sc_item.decision = "NO_GO") <=> (~go /\ ~maybe)
            /\ db \in {"immediate", "unknown"} => sc_item.decision = "NO_GO"

C5_Witness ==
    /\ sc_pc = "scored"
    /\ sc_item.deadline_bucket = "planning"
    /\ sc_item.budget_bucket = "mid"
    /\ sc_item.decision = "GO"

\* the day count of the rule, from the normalized deadline's digits
DayCount(iso, now) ==
    ((Ordinal(iso.y.val, iso.m.val, iso.d.val) - now.ord) * 2 - now.tod) \div 2

\* C7: the bucket is unknown for a null normalized deadline, and for every
\* non-null one it is immediate below 7 days, near_term from 7 to 29 days and
\* planning from 30 days on.
C7_BucketByDayCount ==
    sc_pc = "scored" =>
        IF sc_item.deadline = None THEN sc_item.deadline_bucket = "unknown"
        ELSE sc_item.deadline_bucket =
                (IF DayCount(sc_item.deadline, sc_now) < 7 THEN "immediate"
                 ELSE IF DayCount(sc_item.deadline, sc_now) < 30 THEN "near_term"
                 ELSE "planning")

\* the rule of C7 on the normalized deadlines that are calendar dates
BucketByDayCountOnCalendarDates ==
    (sc_pc = "scored" /\ sc_item.deadline # None
       /\ sc_item.deadline.m.val \in 1..12
       /\ sc_item.deadline.d.val \in
            1..DaysInMonth(sc_item.deadline.y.val, sc_item.deadline.m.val)) =>
        sc_item.deadline_bucket =
            (IF DayCount(sc_item.deadline, sc_now) < 7 THEN "immediate"
             ELSE IF DayCount(sc_item.deadline, sc_now) < 30 THEN "near_term"
             ELSE "planning")


IsPrefix(a, b) == Len(a) <= Len(b) /\ SubSeq(b, 1, Len(a)) = a
NoDupIds(h) == \A a \in 1..Len(h), b \in 1..Len(h) : h[a].id = h[b].id => a = b

\* C12: from an empty history, as long as no finished run has crawled two
\* candidates with one id, no two records of the history log share an id; and
\* a run only appends: the log as it was when the run started is a prefix of
\* the log, at every step of the run and after it.
C12_HistoryIdsUnique ==
    /\ IsPrefix(hist_at_start, history)
    /\ ~dup_run => NoDupIds(history)

C12_Witness ==
    /\ pc = "idle" /\ runs >= 2 /\ ~dup_run
    /\ hist_at_start # <<>>
    /\ Len(history) > Len(hist_at_start)
    /\ \E c \in Cands : CandId(c) \in load_existing_ids(hist_at_start)

-----------------------------------------------------------------------------
(* Properties of one page fetch (SpecFetch)                                  *)

AllTransient(log) == \A i \in 1..Len(log) : is_retry(log[i])

\* the degraded detail record
Degraded == [pdf_url |-> None, deadline |-> None, description |-> EmptyText]

\* the caller's result for a fetch the session gave up on / answered
FetchGaveUp ==
    IF ft_kind = "index" THEN ~ft_out.ok ELSE ft_out = Degraded
FetchSucceeded ==
    IF ft_kind = "index"
    THEN ft_out.ok /\ Len(ft_out.items) = 1
    ELSE ft_out = fetch_listing_detail(DetailUrl, <<"a.z">>, PageDue)

\* C11: a page fetch whose attempts all fail transiently makes at most 3
\* attempts; once 3 attempts have failed that way the session has given up, an
\* index fetch then fails the source and a detail fetch degrades the listing;
\* a fetch answered with the page on one of its first 3 attempts succeeds.
C11_RetryBudgetOfThree ==
    /\ AllTransient(ft_log) => Len(ft_log) <= 3
    /\ (AllTransient(ft_log) /\ Len(ft_log) = 3) => ft_pc # "attempt"
    /\ (ft_pc = "done" /\ AllTransient(ft_log) /\ Len(ft_log) >= 3) => FetchGaveUp
    /\ (ft_pc = "done" /\ Len(ft_log) <= 3 /\ ft_log[Len(ft_log)] = Answer(200))
          => FetchSucceeded

\* what the session does: Retry(total=3) allows 3 retries after the first
\* attempt, so 4 attempts in all; the session gives up exactly at the fourth
\* transient failure, and a page on any of the 4 attempts is a success
RetryBudgetOfFour ==
    /\ Len(ft_log) <= retry_total + 1
    /\ (AllTransient(ft_log) /\ Len(ft_log) <= retry_total) => ft_pc = "attempt"
    /\ (AllTransient(ft_log) /\ Len(ft_log) = retry_total + 1) =>
          /\ ft_pc # "attempt"
          /\ ~ft_resp.ok
          /\ ft_pc = "done" => FetchGaveUp
    /\ (ft_pc = "done" /\ ft_log[Len(ft_log)] = Answer(200)) => FetchSucceeded

FourthAttemptReached ==
    /\ ft_pc = "done" /\ Len(ft_log) = 4
    /\ AllTransient(SubSeq(ft_log, 1, 3))

=============================================================================
